---- MODULE Spec2Model ----
(***************************************************************************)
(* Phase segmentation of HPD 107 cryostat logs (load_107.py).              *)
(*                                                                         *)
(* A log is a table (DataFrame) of samples.  split_csv and split_db cut    *)
(* it at the rows whose note carries a magnet-cycle marker and return the  *)
(* cooldown/warmup, regen and reg phases; temphold_filter removes the      *)
(* magnet-off rows of the reg phases.                                      *)
(*                                                                         *)
(* Units: Date/Time and Hours in hours, Current in mA, 50mK in 0.1 K.      *)
(* Row positions are 0-based as in the source; a table is a sequence, so   *)
(* row i of the source is element i+1 of the sequence.                     *)
(* A note is modelled by the set of markers it contains as a substring.    *)
(* The field src of a row is its position in the source table (the row's   *)
(* identity, kept to tell which source rows a phase holds).                *)
(***************************************************************************)
EXTENDS Integers, Sequences, FiniteSets, TLC

VARIABLES log, csvResult, dbResult, regfiles, holdResult, holdAgain

vars == <<log, csvResult, dbResult, regfiles, holdResult, holdAgain>>

----------------------------------------------------------------------------
(* Bounds and input values *)

MaxRows == 3

MaxRegRows == 2

MaxPhases == 2

StartMagCycle == "Start Mag Cycle"
MagCycleComplete == "Mag Cycle complete"
MagCycleCanceled == "Mag Cycle Canceled"

NoteValues ==
    { {}, {StartMagCycle}, {MagCycleComplete}, {StartMagCycle, MagCycleCanceled} }

\* (Current, 50mK) pairs: magnet off and warm, residual current at 4 K,
\* regulating with the 50mK channel reading its placeholder 0, regen peak.
Readings ==
    { <<50, 2850>>, <<90, 40>>, <<1000, 0>>, <<20000, 40>> }

\* Sampling intervals of a log, in hours.
Intervals == {2, 4}

\* Currents of a temperature-hold log, the filter threshold among them.
HoldReadings ==
    { <<85, 1>>, <<90, 1>>, <<1000, 1>> }

\* Sampling interval of the temperature-hold logs, in hours.
HoldInterval == 2

Files == <<"A.csv", "B.csv">>

\* Hours after the start of the log at which the table begins.
FirstTime == 1

NaN == -1

NotRun == [status |-> "notrun"]

IndexError(where) == [status |-> "IndexError", where |-> where]

----------------------------------------------------------------------------
(* DataFrame and list helpers *)

\* df.iloc[a:b, :]
Slice(df, a, b) ==
    IF a >= b THEN << >>
    ELSE SubSeq(df, a + 1, IF b > Len(df) THEN Len(df) ELSE b)

\* list[k] of a Python list, k possibly negative
PyAt(list, k) == IF k < 0 THEN list[Len(list) + k + 1] ELSE list[k + 1]

PyInRange(list, k) == k < Len(list) /\ -k <= Len(list)

\* list.index(v): 0-based position of the first occurrence
PyIndex(list, v) ==
    (CHOOSE k \in 1..Len(list) :
        list[k] = v /\ \A j \in 1..(k - 1) : list[j] # v) - 1

RECURSIVE Repeat(_, _)
Repeat(v, k) == IF k = 0 THEN << >> ELSE <<v>> \o Repeat(v, k - 1)

\* the sorted list holding value v count[v] times, for v in lo..hi
RECURSIVE SortedList(_, _, _)
SortedList(count, lo, hi) ==
    IF lo > hi THEN << >>
    ELSE Repeat(lo, count[lo]) \o SortedList(count, lo + 1, hi)

B2N(b) == IF b THEN 1 ELSE 0

\* the rows of a table, for series.any() and series.all()
Rows(df) == { df[i] : i \in 1..Len(df) }

\* RebaseHours with the base read from the Hours column (.iloc[0,1])
RebaseHoursWrongColumn(df) ==
    [i \in 1..Len(df) |-> [df[i] EXCEPT !.Hours = df[i].DateTime - df[1].Hours]]

\* df["Hours"] = (df['Date/Time'] - df.iloc[0,0]).dt.total_seconds()/3600
\* on a non-empty table (the callers handle the empty one)
RebaseHours(df) ==
    [i \in 1..Len(df) |-> [df[i] EXCEPT !.Hours = df[i].DateTime - df[1].DateTime]]

\* df['50mK'].replace(0, np.nan)
ReplaceZero(df) ==
    [i \in 1..Len(df) |->
        IF df[i].T50mK = 0 THEN [df[i] EXCEPT !.T50mK = NaN] ELSE df[i]]

----------------------------------------------------------------------------
(* Note predicates *)

IsRegenStart(row) == StartMagCycle \in row.Notes

IsRegStart(row) == MagCycleComplete \in row.Notes \/ MagCycleCanceled \in row.Notes

IsMarker(row) ==
    StartMagCycle \in row.Notes \/ MagCycleComplete \in row.Notes
        \/ MagCycleCanceled \in row.Notes

\* df.index[regen_booleans].to_list(): the 0-based positions, ascending
RegenIndicies(df) ==
    SortedList([i \in 0..Len(df) |-> B2N(i < Len(df) /\ IsRegenStart(df[i + 1]))],
               0, Len(df))

\* df.index[reg_booleans].to_list()
RegIndicies(df) ==
    SortedList([i \in 0..Len(df) |-> B2N(i < Len(df) /\ IsRegStart(df[i + 1]))],
               0, Len(df))

----------------------------------------------------------------------------
(* temphold_filter *)

MagnetOn(row) == row.Current > 85

HoldFilter(reg) == SelectSeq(reg, MagnetOn)

\* The loop of temphold_filter: every phase is filtered and rebased in key
\* order; .iloc[0,0] of a phase left empty raises IndexError.
temphold_filter(files) ==
    IF \E k \in 1..Len(files) : HoldFilter(files[k]) = << >>
    THEN IndexError("temphold_filter")
    ELSE [status |-> "ok",
          regfiles |-> [k \in 1..Len(files) |-> RebaseHours(HoldFilter(files[k]))]]

\* The dictionary after the call (it is updated in place): on an IndexError
\* the phases before the empty one are filtered and rebased, the empty one is
\* stored filtered, the later ones are untouched.
FirstEmpty(files) ==
    CHOOSE k \in 1..Len(files) :
        HoldFilter(files[k]) = << >> /\ \A j \in 1..(k - 1) : HoldFilter(files[j]) # << >>

DictAfterFilter(files) ==
    IF \E k \in 1..Len(files) : HoldFilter(files[k]) = << >>
    THEN [k \in 1..Len(files) |->
            IF k < FirstEmpty(files) THEN RebaseHours(HoldFilter(files[k]))
            ELSE IF k = FirstEmpty(files) THEN << >>
            ELSE files[k]]
    ELSE [k \in 1..Len(files) |-> RebaseHours(HoldFilter(files[k]))]

----------------------------------------------------------------------------
(* split_csv *)

RegenMagnetOn(row) == row.Current > 15000

RegBelowFloor(row) == row.Current < 100

RegAboveMax(row) == row.Current > 2000

\* RegAccept without the test that the magnet is on somewhere
RegAcceptNoFloor(slice) == ~(\E row \in Rows(slice) : RegAboveMax(row))

RegAccept(slice) ==
    /\ ~(\A row \in Rows(slice) : RegBelowFloor(row))
    /\ ~(\E row \in Rows(slice) : RegAboveMax(row))

DurationOk(d) == 3 < d /\ d < 5

\* all_indicies: the marker rows, row 0 and the last row
CsvAllIndicies(df) ==
    LET n == Len(df)
        forced(i) == i = 0 \/ i = n - 1
    IN  SortedList([i \in 0..n |->
            B2N(i < n /\ (forced(i) \/ IsMarker(df[i + 1])))], 0, n)

\* Stands for "the lookup raised IndexError".
Raised == -1

\* CsvNext taking the last cut point for every start
CsvNextLast(all, s) == PyAt(all, -1)

\* CsvNext with the position clamped to the end of the list
CsvNextClamped(all, s) ==
    IF PyInRange(all, PyIndex(all, s) + 1) THEN PyAt(all, PyIndex(all, s) + 1)
    ELSE PyAt(all, -1)

\* all_indicies[all_indicies.index(s)+1]
CsvNext(all, s) ==
    IF PyInRange(all, PyIndex(all, s) + 1) THEN PyAt(all, PyIndex(all, s) + 1)
    ELSE Raised

\* the regen test of split_csv: the duration is taken from row s to row e
CsvRegenAccept(df, s, e) ==
    /\ \E row \in Rows(Slice(df, s, e)) : RegenMagnetOn(row)
    /\ DurationOk(df[e + 1].DateTime - df[s + 1].DateTime)

\* The statements of split_csv in order; the first IndexError ends the call.
split_csv(df) ==
    LET n == Len(df)
        all == CsvAllIndicies(df)
        regen_indicies == RegenIndicies(df)
        reg_indicies == RegIndicies(df)
        regenOk(s) == CsvRegenAccept(df, s, CsvNext(all, s))
        regOk(s) == RegAccept(Slice(df, s, CsvNext(all, s)))
        regenStarts == SelectSeq(regen_indicies, regenOk)
        regStarts == SelectSeq(reg_indicies, regOk)
        regens == [k \in 1..Len(regenStarts) |->
                    RebaseHours(Slice(df, regenStarts[k], CsvNext(all, regenStarts[k])))]
        regs == [k \in 1..Len(regStarts) |->
                    ReplaceZero(RebaseHours(
                        Slice(df, regStarts[k], CsvNext(all, regStarts[k]))))]
        held == temphold_filter(regs)
    IN  IF n = 0 THEN IndexError("all_booleans")
        ELSE IF ~PyInRange(all, 1) THEN IndexError("coolwarm")
        ELSE IF \E k \in 1..Len(regen_indicies) : CsvNext(all, regen_indicies[k]) = Raised
             THEN IndexError("regen")
        ELSE IF \E k \in 1..Len(reg_indicies) : CsvNext(all, reg_indicies[k]) = Raised
             THEN IndexError("reg")
        ELSE IF held.status # "ok" THEN held
        ELSE [status |-> "ok",
              cooldown |-> << RebaseHours(Slice(df, PyAt(all, 0), PyAt(all, 1))) >>,
              warmup |-> << RebaseHours(Slice(df, PyAt(all, -2), PyAt(all, -1))) >>,
              regenfiles |-> regens,
              regfiles |-> held.regfiles]

----------------------------------------------------------------------------
(* split_db *)

\* log_indicies: the rows whose Filepath differs from the next row's
IsLogChange(df, i) == i + 1 < Len(df) /\ df[i + 1].Filepath # df[i + 2].Filepath

DbLogIndicies(df) ==
    SortedList([i \in 0..Len(df) |-> B2N(IsLogChange(df, i))], 0, Len(df))

\* indicies: log, regen and reg positions, 0 and len(df), sorted; a position
\* is listed once for every list it comes from
DbIndicies(df) ==
    LET n == Len(df)
    IN  SortedList([i \in 0..n |->
            B2N(IsLogChange(df, i))
            + B2N(i < n /\ IsRegenStart(df[i + 1]))
            + B2N(i < n /\ IsRegStart(df[i + 1]))
            + B2N(i = 0) + B2N(i = n)], 0, n)

\* indicies[indicies.index(s)+1] and indicies[indicies.index(s)-1]
DbNext(ind, s) == PyAt(ind, PyIndex(ind, s) + 1)
DbPrev(ind, s) == PyAt(ind, PyIndex(ind, s) - 1)

RoomTemperature(row) == 2840 <= row.T50mK /\ row.T50mK <= 2860

HeliumTemperature(row) == 35 <= row.T50mK /\ row.T50mK <= 45

IsCoolWarm(phase) ==
    /\ \E row \in Rows(phase) : RoomTemperature(row)
    /\ \E row \in Rows(phase) : HeliumTemperature(row)

Keep(phase) == IF IsCoolWarm(phase) THEN <<phase>> ELSE << >>

\* the regen test of split_db: the duration is taken on the rows of regenlog
DbRegenAccept(regenlog) ==
    /\ \E row \in Rows(regenlog) : RegenMagnetOn(row)
    /\ DurationOk(regenlog[Len(regenlog)].DateTime - regenlog[1].DateTime)

split_db(df) ==
    LET n == Len(df)
        log_indicies == DbLogIndicies(df)
        regen_indicies == RegenIndicies(df)
        reg_indicies == RegIndicies(df)
        ind == DbIndicies(df)
        firstlog == Slice(df, PyAt(ind, 0), PyAt(ind, 1))
        lastlog == Slice(df, PyAt(ind, -2), PyAt(ind, -1))
        coollogs == [x \in 1..Len(log_indicies) |->
                        Slice(df, log_indicies[x] + 1, DbNext(ind, log_indicies[x]))]
        warmlogs == [x \in 1..Len(log_indicies) |->
                        Slice(df, DbPrev(ind, log_indicies[x]), log_indicies[x])]
        regenlogs == [x \in 1..Len(regen_indicies) |->
                        Slice(df, regen_indicies[x], DbNext(ind, regen_indicies[x]))]
        reglogs == [x \in 1..Len(reg_indicies) |->
                        Slice(df, reg_indicies[x], DbNext(ind, reg_indicies[x]))]
        regens == SelectSeq(regenlogs, DbRegenAccept)
        regs == SelectSeq(reglogs, RegAccept)
        held == temphold_filter(
                    [k \in 1..Len(regs) |-> ReplaceZero(RebaseHours(regs[k]))])
    IN  IF held.status # "ok" THEN held
        ELSE [status |-> "ok",
              cooldown |-> Keep(firstlog) \o SelectSeq(coollogs, IsCoolWarm),
              warmup |-> SelectSeq(warmlogs, IsCoolWarm) \o Keep(lastlog),
              regenfiles |-> [k \in 1..Len(regens) |-> RebaseHours(regens[k])],
              regfiles |-> held.regfiles]

----------------------------------------------------------------------------
(* Input tables *)

\* Row i of a table sampled every dt hours from t0; Hours is the time since
\* the start of the row's own log (h0 at row 0 of the table).
RowAt(i, t0, dt, h, note, reading, file) ==
    [DateTime |-> t0 + i * dt, Hours |-> h, T50mK |-> reading[2],
     Current |-> reading[1], Notes |-> note, Filepath |-> file, src |-> i]

\* A table of n rows; the rows after position change (0-based) come from the
\* second file, whose log starts at its first row.
MakeTable(n, dt, notes, readings, change) ==
    [i \in 1..n |->
        IF i - 1 <= change
        THEN RowAt(i - 1, FirstTime, dt, FirstTime + (i - 1) * dt,
                   notes[i], readings[i], Files[1])
        ELSE RowAt(i - 1, FirstTime, dt, (i - 2 - change) * dt,
                   notes[i], readings[i], Files[2])]

IsTable(df) ==
    \E n \in 0..MaxRows, dt \in Intervals :
        \E notes \in [1..n -> NoteValues], readings \in [1..n -> Readings] :
            \E change \in 0..(IF n = 0 THEN 0 ELSE n - 1) :
                df = MakeTable(n, dt, notes, readings, change)

\* The temperature-hold logs handed to temphold_filter directly.
RegLogs ==
    UNION { { MakeTable(n, HoldInterval, [i \in 1..n |-> {}], readings, n) :
                readings \in [1..n -> HoldReadings] } :
            n \in 0..MaxRegRows }

IsRegDict(files) == \E m \in 0..MaxPhases : files \in [1..m -> RegLogs]

----------------------------------------------------------------------------
(* Specification *)

Init ==
    /\ IsTable(log)
    /\ csvResult = NotRun
    /\ dbResult = NotRun
    /\ regfiles = << >>
    /\ holdResult = NotRun
    /\ holdAgain = NotRun

SplitCsv ==
    /\ csvResult = NotRun
    /\ csvResult' = split_csv(log)
    /\ UNCHANGED <<log, dbResult, regfiles, holdResult, holdAgain>>

SplitDb ==
    /\ dbResult = NotRun
    /\ dbResult' = split_db(log)
    /\ UNCHANGED <<log, csvResult, regfiles, holdResult, holdAgain>>

Next == SplitCsv \/ SplitDb

Spec == Init /\ [][Next]_vars

\* temphold_filter called on its own, then again on the dictionary it returned
InitHold ==
    /\ log = << >>
    /\ csvResult = NotRun
    /\ dbResult = NotRun
    /\ IsRegDict(regfiles)
    /\ holdResult = NotRun
    /\ holdAgain = NotRun

TempholdFilter ==
    /\ holdResult = NotRun
    /\ holdResult' = temphold_filter(regfiles)
    /\ regfiles' = DictAfterFilter(regfiles)
    /\ UNCHANGED <<log, csvResult, dbResult, holdAgain>>

TempholdFilterAgain ==
    /\ holdResult.status = "ok"
    /\ holdAgain = NotRun
    /\ holdAgain' = temphold_filter(holdResult.regfiles)
    /\ regfiles' = DictAfterFilter(holdResult.regfiles)
    /\ UNCHANGED <<log, csvResult, dbResult, holdResult>>

NextHold == TempholdFilter \/ TempholdFilterAgain

SpecHold == InitHold /\ [][NextHold]_vars

----------------------------------------------------------------------------
(* Properties *)

Ok(res) == res.status = "ok"

Done(res) == res # NotRun

SrcRows(phase) == { phase[i].src : i \in 1..Len(phase) }

\* the phases of a result, each tagged with its dictionary and number
PhasesOf(res) ==
    { <<"cooldown", k, res.cooldown[k]>> : k \in 1..Len(res.cooldown) }
    \cup { <<"warmup", k, res.warmup[k]>> : k \in 1..Len(res.warmup) }
    \cup { <<"regen", k, res.regenfiles[k]>> : k \in 1..Len(res.regenfiles) }
    \cup { <<"reg", k, res.regfiles[k]>> : k \in 1..Len(res.regfiles) }

CyclePhasesOf(res) == { p \in PhasesOf(res) : p[1] \in {"regen", "reg"} }

FirstHoursZero(res) ==
    Ok(res) => \A p \in PhasesOf(res) : p[3] # << >> => p[3][1].Hours = 0

\* C1: every phase returned by split_csv and by split_db (cooldown, warmup,
\* regen, reg) has Hours = 0 in its first row.
C1_FirstHoursZero == FirstHoursZero(csvResult) /\ FirstHoursZero(dbResult)

Disjoint(phases) ==
    \A p, q \in phases : (p[1] # q[1] \/ p[2] # q[2]) => SrcRows(p[3]) \cap SrcRows(q[3]) = {}

\* C2 as stated: no source row is in two different phases returned by one
\* call of split_csv (cooldown, warmup, regenN, regN).
C2_AllPhasesDisjoint == Ok(csvResult) => Disjoint(PhasesOf(csvResult))

\* C2 amended: no source row is in two different regen/reg phases returned by
\* one call of split_csv.
C2_CyclePhasesDisjoint == Ok(csvResult) => Disjoint(CyclePhasesOf(csvResult))

C2_Witness ==
    /\ Ok(csvResult)
    /\ Len(csvResult.regenfiles) >= 1
    /\ Len(csvResult.regfiles) >= 1

\* the regen test as the claim states it: Current above 15 A somewhere in
\* rows [s, e) and the time from row s to row e-1 strictly between 3 and 5 h
ClaimedRegenAccept(df, s, e) ==
    /\ \E row \in Rows(Slice(df, s, e)) : RegenMagnetOn(row)
    /\ DurationOk(df[e].DateTime - df[s + 1].DateTime)

\* next[s] is the cut point that ends the slice of start row s
ClaimedRegens(df, next) ==
    LET ok(s) == ClaimedRegenAccept(df, s, next[s])
        kept == SelectSeq(RegenIndicies(df), ok)
    IN  [k \in 1..Len(kept) |-> RebaseHours(Slice(df, kept[k], next[kept[k]]))]

RegenRows(df) == { i \in 0..(Len(df) - 1) : IsRegenStart(df[i + 1]) }

\* C3: in split_csv and in split_db the slice [s, e) of a "Start Mag Cycle"
\* row s is returned as a regen iff some Current in it is above 15 A and the
\* time from row s to row e-1 is strictly between 3 and 5 hours.
C3_RegenAcceptance ==
    /\ Ok(csvResult) =>
         csvResult.regenfiles =
            ClaimedRegens(log, [s \in RegenRows(log) |-> CsvNext(CsvAllIndicies(log), s)])
    /\ Ok(dbResult) =>
         dbResult.regenfiles =
            ClaimedRegens(log, [s \in RegenRows(log) |-> DbNext(DbIndicies(log), s)])

LastRowIsMarker == Len(log) >= 1 /\ IsMarker(log[Len(log)])

MagnetOff(row) == ~MagnetOn(row)

\* C5: temphold_filter on a dictionary holding a phase whose every row has
\* Current <= 0.085 returns normally, that key mapped to an empty table and the
\* other phases filtered as usual.
C5_EmptyPhaseKept ==
    [][ ( /\ holdResult = NotRun
          /\ holdResult' # NotRun
          /\ \E k \in 1..Len(regfiles) : (\A row \in Rows(regfiles[k]) : MagnetOff(row)) )
        => ( /\ holdResult'.status = "ok"
             /\ Len(holdResult'.regfiles) = Len(regfiles)
             /\ \A k \in 1..Len(regfiles) :
                    IF (\A row \in Rows(regfiles[k]) : MagnetOff(row))
                    THEN holdResult'.regfiles[k] = << >>
                    ELSE holdResult'.regfiles[k] = RebaseHours(HoldFilter(regfiles[k])) )
      ]_vars

\* C6: temphold_filter applied to the dictionary a first application returned
\* returns the same keys with the identical tables (rows, order, Hours).
C6_FilterIdempotent == Done(holdAgain) => holdAgain = holdResult

C6_Witness ==
    /\ Ok(holdAgain)
    /\ \E k \in 1..Len(holdResult.regfiles) : holdResult.regfiles[k][1].src > 0

InteriorMarkers(df) == { i \in 1..(Len(df) - 2) : IsMarker(df[i + 1]) }

Least(S) == CHOOSE x \in S : \A y \in S : x <= y

Greatest(S) == CHOOSE x \in S : \A y \in S : x >= y

\* C7: in split_csv, with a marker row strictly between the first and the
\* last row, cooldown is rows 0 up to the first such marker (excluded) and
\* warmup is the rows from the last marker through the final row.
C7_CoolWarmRows ==
    (Ok(csvResult) /\ InteriorMarkers(log) # {}) =>
        /\ SrcRows(csvResult.cooldown[1]) = 0..(Least(InteriorMarkers(log)) - 1)
        /\ SrcRows(csvResult.warmup[1]) = Greatest(InteriorMarkers(log))..(Len(log) - 1)

MarkerRows(df) == { i \in 0..(Len(df) - 1) : IsMarker(df[i + 1]) }

Occurrences(list, v) == Cardinality({ k \in 1..Len(list) : list[k] = v })

\* C8: in split_db, as in split_csv, every row is listed at most once in the
\* cut list and the end used for a marker row s is a cut point strictly after
\* s, so the candidate slice [s, e) is non-empty and starts at s.
C8_NextCutAfterStart ==
    /\ Ok(csvResult) =>
         \A s \in MarkerRows(log) :
            /\ Occurrences(CsvAllIndicies(log), s) <= 1
            /\ CsvNext(CsvAllIndicies(log), s) > s
    /\ Done(dbResult) =>
         \A s \in MarkerRows(log) :
            /\ Occurrences(DbIndicies(log), s) <= 1
            /\ DbNext(DbIndicies(log), s) > s
            /\ Slice(log, s, DbNext(DbIndicies(log), s)) # << >>

RegRowsOn(res) ==
    /\ Done(res) => ~(res.status = "IndexError" /\ res.where = "temphold_filter")
    /\ Ok(res) =>
         \A k \in 1..Len(res.regfiles) :
            /\ res.regfiles[k] # << >>
            /\ \A i \in 1..Len(res.regfiles[k]) :
                  /\ res.regfiles[k][i].Current > 85
                  /\ res.regfiles[k][i].Current <= 2000

\* C9: every reg phase returned by split_csv or split_db is non-empty with
\* 0.085 < Current <= 2 in every row, and the temphold_filter call inside
\* segmentation never fails on an emptied phase.
C9_RegRowsMagnetOn == RegRowsOn(csvResult) /\ RegRowsOn(dbResult)

SingleSource(df) == \A i, j \in 1..Len(df) : df[i].Filepath = df[j].Filepath

\* both return a reg phase, and one from split_db starts at its marker row
\* and has lost the magnet-off row that followed it
C9_Witness ==
    /\ Ok(csvResult)
    /\ Ok(dbResult)
    /\ SingleSource(log)
    /\ Len(csvResult.regfiles) >= 1
    /\ \E k \in 1..Len(dbResult.regfiles) :
          LET first == dbResult.regfiles[k][1]
          IN  /\ IsRegStart(first)
              /\ \E j \in 1..Len(log) :
                    /\ log[j].src = first.src + 1
                    /\ ~MagnetOn(log[j])
                    /\ ~IsMarker(log[j])

\* C10: on a single-source table on which both return, split_csv and split_db
\* give the same regen collection and the same reg collection.
C10_SameCyclePhases ==
    (SingleSource(log) /\ Ok(csvResult) /\ Ok(dbResult)) =>
        /\ csvResult.regenfiles = dbResult.regenfiles
        /\ csvResult.regfiles = dbResult.regfiles

====
